---- MODULE Spec2Model ----
(***************************************************************************)
(* Model of the feed ingestion pipeline of the AO3 tracker: the polling    *)
(* loop of bot.py (AO3TrackerBot.poll_feeds), the pure helpers of          *)
(* feed_parser.py (get_new_entries, filter_entries_by_tags, the sort key)  *)
(* and the store operations of database.py it relies on.                   *)
(***************************************************************************)
EXTENDS Integers, Sequences, FiniteSets, Bags, TLC

(***************************************************************************)
(* Bounds of the model.                                                    *)
(***************************************************************************)
\* entries the upstream feed retains (its window)
MaxWindow == 2
\* the clock saturates here; cycles themselves are unbounded
MaxClock == 2
\* longest entry list handed to the pure functions in FnSpec
MaxLen == 3
\* exceptions and crashes a behaviour of ExcSpec or LifeSpec goes through
MaxFaults == 1

(***************************************************************************)
(* Optional values: Python's None and a present value.                     *)
(***************************************************************************)
None == <<>>
Some(x) == <<x>>

\* datetime.min, the sort key of an entry that carries no timestamp
DatetimeMin == 0
\* a timestamp field that is None
NoTime == -1

(***************************************************************************)
(* The upstream works.  An entry is what parse_entry returns, cut down to  *)
(* the fields the pipeline reads: id, updated, published, tag_names.       *)
(***************************************************************************)
Ids == {"w1", "w2", "w3", ""}

Entry(i, u, p, t) == [id |-> i, updated |-> u, published |-> p, tag_names |-> t]

\* a work whose entry carries its timestamps but no id
NoIdWorks == {"w0"}

\* what a feed reports for each work when it lists it; the last one is an
\* entry without id and timestamps; parse_entry gives an entry without id
\* the id ""
Catalogue ==
    [i \in Ids \cup NoIdWorks |->
        CASE i = "w1" -> Entry("w1", 1, 1, {"Fluff"})
          [] i = "w2" -> Entry("w2", NoTime, 2, {"Angst"})
          [] i = "w3" -> Entry("w3", 2, 1, {})
          [] i = "w0" -> Entry("", 3, 3, {})
          [] OTHER    -> Entry("", NoTime, NoTime, {})]

(***************************************************************************)
(* The rows the store holds when the bot starts: two feeds, feed 1 with    *)
(* two subscriptions (one excluding a tag), feed 2 with none.              *)
(***************************************************************************)
FeedIds == {1, 2}

\* the works that carry each feed's tag
Listed == [f \in FeedIds |-> IF f = 1 THEN {"w1", "w2", ""} ELSE {"w2", "w3"}]

InitFeedChannels ==
    { [id |-> 1, feed_id |-> 1, channel_id |-> 10],
      [id |-> 2, feed_id |-> 1, channel_id |-> 20] }

InitExcludedTags == { [feed_channel_id |-> 2, tag_name |-> "fluff"] }

SubIds == {1, 2}

VARIABLES
    \* the store (database.py)
    feeds,              \* feed_id -> [last_updated, last_entry_id]
    feed_channels,      \* rows of feed_channels
    excluded_tags,      \* rows of excluded_tags
    notified_entries,   \* bag of rows <<feed_channel_id, entry_id>>
    \* the world
    remote,             \* feed_id -> raw entry list the site serves now
    now,                \* datetime.utcnow()
    \* poll_feeds, its position and locals
    pc, cycle_feeds, fi, fetched, entries, new_entries,
    subscriptions, si, filtered_entries, ei,
    \* history
    log,                \* delivery attempts of the running cycle, in order
    failedPrev,         \* pairs whose delivery failed in the cycle before
    sent,               \* successful deliveries per pair, counted to 2
    seen,               \* feed_id -> ids some earlier poll has listed
    \* inputs and result of the pure functions (FnSpec)
    arg_entries, arg_marker, fn_entries, fn_result,
    \* input and result of the exclusion filter (FltSpec)
    arg_excluded, flt_result,
    \* input and results of the metadata extractor (ExtSpec)
    html_content, ext_tag_names, ext_metadata,
    \* the last call made on the store and what it returned (DbSpec)
    db_call, db_result,
    \* the process and its polling task
    task,               \* "running", "cancelled", "failed" or "dead"
    raised,             \* where the running cycle raised: a feed's index, 0
                        \* for the cycle boundary
    gap,                \* the delivery a crash cut off from its record
    faults,             \* exceptions raised and crashes so far
    \* the command layer
    suppressed,         \* pairs <<subscription, entry>> filtered out while new
    feed_rows,          \* rows (id, tag_id) of feeds that commands look up
    calls               \* the get_or_create_feed calls in flight

storeVars == <<feeds, feed_channels, excluded_tags, notified_entries>>
pollVars == <<pc, cycle_feeds, fi, fetched, entries, new_entries,
              subscriptions, si, filtered_entries, ei>>
histVars == <<log, failedPrev, sent, seen>>
fnVars == <<arg_entries, arg_marker, fn_entries, fn_result, arg_excluded, flt_result,
            html_content, ext_tag_names, ext_metadata>>
dbVars == <<db_call, db_result>>
lifeVars == <<task, raised, gap, faults>>
cmdVars == <<suppressed, feed_rows, calls>>
vars == <<storeVars, remote, now, pollVars, histVars, fnVars, dbVars, lifeVars, cmdVars>>

(***************************************************************************)
(* feed_parser.py / bot.py: the pure helpers.                              *)
(***************************************************************************)
\* key=lambda x: x.get("updated") or x.get("published") or datetime.min
SortKey(x) ==
    IF x.updated # NoTime THEN x.updated
    ELSE IF x.published # NoTime THEN x.published
    ELSE DatetimeMin

\* the insertion of a sort that is descending but not stable: x goes before
\* the elements whose key equals its own
RECURSIVE InsertDesc_unstable(_, _)
InsertDesc_unstable(s, x) ==
    IF s = <<>> THEN <<x>>
    ELSE IF SortKey(Head(s)) > SortKey(x)
         THEN <<Head(s)>> \o InsertDesc_unstable(Tail(s), x)
         ELSE <<x>> \o s

\* one step of a stable descending sort: x goes after every element whose
\* key is not smaller than its own
RECURSIVE InsertDesc(_, _)
InsertDesc(s, x) ==
    IF s = <<>> THEN <<x>>
    ELSE IF SortKey(Head(s)) >= SortKey(x)
         THEN <<Head(s)>> \o InsertDesc(Tail(s), x)
         ELSE <<x>> \o s

RECURSIVE SortInto(_, _)
SortInto(acc, s) ==
    IF s = <<>> THEN acc ELSE SortInto(InsertDesc(acc, Head(s)), Tail(s))

\* sorted(entries, key=..., reverse=True): descending and stable
sorted(s) == SortInto(<<>>, s)

\* the tag names compared as they are written, case included
lower_identity(name) == name

\* str.lower() on the tag names of the model
lower(name) ==
    CASE name = "Fluff" -> "fluff"
      [] name = "FLUFF" -> "fluff"
      [] name = "Angst" -> "angst"
      [] name = "Fluffy" -> "fluffy"
      [] name = "Hurt/Comfort" -> "hurt/comfort"
      [] OTHER -> name

\* `not last_entry_id`: None and the empty string are both falsy
Falsy(m) == m = None \/ m = Some("")

\* index of the first entry whose id is the marker, 0 when there is none
IndexOf(s, i) ==
    IF \E k \in 1..Len(s) : s[k].id = i
    THEN CHOOSE k \in 1..Len(s) :
            /\ s[k].id = i
            /\ \A j \in 1..(k - 1) : s[j].id # i
    ELSE 0

\* the branch of get_new_entries a call takes: `if not last_entry_id`,
\* then `if last_index is None`, else the slice before the marker
get_new_entries_branch(es, last_entry_id) ==
    IF Falsy(last_entry_id) THEN "absent"
    ELSE IF IndexOf(es, last_entry_id[1]) = 0 THEN "not_found"
    ELSE "found"

\* get_new_entries treating the first poll as "nothing is new"
get_new_entries_first_poll_empty(es, last_entry_id) ==
    IF Falsy(last_entry_id) THEN <<>>
    ELSE LET last_index == IndexOf(es, last_entry_id[1])
         IN  IF last_index = 0 THEN sorted(es)
             ELSE SubSeq(es, 1, last_index - 1)

\* get_new_entries returning nothing when the marker is not in the list
get_new_entries_absent_marker_empty(es, last_entry_id) ==
    IF Falsy(last_entry_id) THEN sorted(es)
    ELSE LET last_index == IndexOf(es, last_entry_id[1])
         IN  IF last_index = 0 THEN <<>>
             ELSE SubSeq(es, 1, last_index - 1)

get_new_entries(es, last_entry_id) ==
    IF Falsy(last_entry_id) THEN sorted(es)
    ELSE LET last_index == IndexOf(es, last_entry_id[1])
         IN  IF last_index = 0 THEN sorted(es)
             ELSE SubSeq(es, 1, last_index - 1)

Passes(e, excluded_tag_names) ==
    {lower(n) : n \in excluded_tag_names} \cap {lower(n) : n \in e.tag_names} = {}

\* a filter that inserts each kept entry at the head of its result
filter_entries_by_tags_reversed(es, excluded_tag_names) ==
    IF excluded_tag_names = {} THEN es
    ELSE LET kept == SelectSeq(es, LAMBDA e : Passes(e, excluded_tag_names))
         IN  [k \in 1..Len(kept) |-> kept[Len(kept) + 1 - k]]

filter_entries_by_tags(es, excluded_tag_names) ==
    IF excluded_tag_names = {} THEN es
    ELSE SelectSeq(es, LAMBDA e : Passes(e, excluded_tag_names))

(***************************************************************************)
(* database.py: the store operations the pipeline calls.                   *)
(***************************************************************************)
RECURSIVE SeqOf(_)
SeqOf(S) ==
    IF S = {} THEN <<>>
    ELSE LET m == CHOOSE x \in S : \A y \in S : x <= y
         IN  <<m>> \o SeqOf(S \ {m})

\* SELECT id, last_entry_id FROM feeds
get_all_feeds ==
    LET ids == SeqOf(DOMAIN feeds)
    IN  [k \in 1..Len(ids) |->
            [id |-> ids[k], last_entry_id |-> feeds[ids[k]].last_entry_id]]

\* the query with the excluded tags of every subscription joined to each row
get_subscriptions_with_excluded_tags_shared(feed_id) ==
    LET ids == SeqOf({r.id : r \in {x \in feed_channels : x.feed_id = feed_id}})
        row(i) == CHOOSE r \in feed_channels : r.id = i
    IN  [k \in 1..Len(ids) |->
            [subscription_id |-> ids[k],
             channel_id |-> row(ids[k]).channel_id,
             excluded_tags |-> {t.tag_name : t \in excluded_tags}]]

get_subscriptions_with_excluded_tags(feed_id) ==
    LET ids == SeqOf({r.id : r \in {x \in feed_channels : x.feed_id = feed_id}})
        row(i) == CHOOSE r \in feed_channels : r.id = i
    IN  [k \in 1..Len(ids) |->
            [subscription_id |-> ids[k],
             channel_id |-> row(ids[k]).channel_id,
             excluded_tags |->
                {t.tag_name : t \in {x \in excluded_tags : x.feed_channel_id = ids[k]}}]]

\* the EXISTS query never matching (wrong column compared)
is_entry_notified_never(feed_channel_id, entry_id) == FALSE

\* SELECT EXISTS(... WHERE feed_channel_id = $1 AND entry_id = $2)
is_entry_notified(feed_channel_id, entry_id) ==
    BagIn(<<feed_channel_id, entry_id>>, notified_entries)

\* the INSERT with the UNIQUE(feed_channel_id, entry_id) constraint missing
\* from the schema: a second row is stored
insert_notified_entry_no_unique(feed_channel_id, entry_id) ==
    [rows |-> notified_entries (+) SetToBag({<<feed_channel_id, entry_id>>}),
     error |-> "none"]

\* an insert that first deletes the subscription's earlier rows
insert_notified_entry_keep_latest(feed_channel_id, entry_id) ==
    [rows |-> SetToBag({<<feed_channel_id, entry_id>>}) (+)
              SetToBag({r \in BagToSet(notified_entries) : r[1] # feed_channel_id}),
     error |-> "none"]

\* the INSERT with feed_channel_id not declared as a reference to
\* feed_channels(id): a row for a subscription that is gone is stored
insert_notified_entry_no_foreign_key(feed_channel_id, entry_id) ==
    IF BagIn(<<feed_channel_id, entry_id>>, notified_entries)
    THEN [rows |-> notified_entries, error |-> "UniqueViolationError"]
    ELSE [rows |-> notified_entries (+) SetToBag({<<feed_channel_id, entry_id>>}),
          error |-> "none"]

\* INSERT INTO notified_entries under feed_channel_id REFERENCES
\* feed_channels(id) and UNIQUE(feed_channel_id, entry_id): the rows
\* afterwards and the exception the statement raises
insert_notified_entry(feed_channel_id, entry_id) ==
    IF ~\E r \in feed_channels : r.id = feed_channel_id
    THEN [rows |-> notified_entries, error |-> "ForeignKeyViolationError"]
    ELSE IF BagIn(<<feed_channel_id, entry_id>>, notified_entries)
    THEN [rows |-> notified_entries, error |-> "UniqueViolationError"]
    ELSE [rows |-> notified_entries (+) SetToBag({<<feed_channel_id, entry_id>>}),
          error |-> "none"]

\* record_notification without its except clause: the violation escapes
record_notification_raises(feed_channel_id, entry_id) ==
    LET r == insert_notified_entry(feed_channel_id, entry_id)
    IN  [rows |-> r.rows, error |-> r.error, caught |-> "none"]

\* try: INSERT ... except asyncpg.UniqueViolationError: pass
\* (error: what escapes to the caller; caught: what the except clause took)
record_notification(feed_channel_id, entry_id) ==
    LET r == insert_notified_entry(feed_channel_id, entry_id)
    IN  [rows |-> r.rows,
         error |-> IF r.error = "UniqueViolationError" THEN "none" ELSE r.error,
         caught |-> IF r.error = "UniqueViolationError" THEN r.error ELSE "none"]

\* the UPDATE without its WHERE id = $3: every feed row is written
update_feed_metadata_all_rows(feed_id, last_updated, last_entry_id) ==
    [f \in DOMAIN feeds |->
        [last_updated |-> Some(last_updated), last_entry_id |-> Some(last_entry_id)]]

\* UPDATE feeds SET last_updated = $1, last_entry_id = $2 WHERE id = $3
update_feed_metadata(feed_id, last_updated, last_entry_id) ==
    [feeds EXCEPT ![feed_id] =
        [last_updated |-> Some(last_updated), last_entry_id |-> Some(last_entry_id)]]

(***************************************************************************)
(* The state when the bot starts polling.                                  *)
(***************************************************************************)
NoLocals ==
    /\ fetched = "none"
    /\ entries = <<>>
    /\ new_entries = <<>>
    /\ subscriptions = <<>>
    /\ si = 0
    /\ filtered_entries = <<>>
    /\ ei = 0

InitStore ==
    /\ feeds = [f \in FeedIds |-> [last_updated |-> None, last_entry_id |-> None]]
    /\ feed_channels = InitFeedChannels
    /\ excluded_tags = InitExcludedTags
    /\ notified_entries = EmptyBag

InitPoll ==
    /\ pc = "idle"
    /\ cycle_feeds = <<>>
    /\ fi = 0
    /\ NoLocals

InitHist ==
    /\ log = <<>>
    /\ failedPrev = {}
    /\ sent = [p \in SubIds \X Ids |-> 0]
    /\ seen = [f \in FeedIds |-> {}]

InitBot ==
    /\ InitStore
    /\ remote = [f \in FeedIds |-> <<>>]
    /\ now = 0
    /\ InitPoll
    /\ InitHist

InitFn ==
    /\ arg_entries = <<>>
    /\ arg_marker = None
    /\ fn_entries = <<>>
    /\ fn_result = None
    /\ arg_excluded = {}
    /\ flt_result = None
    /\ html_content = <<>>
    /\ ext_tag_names = None
    /\ ext_metadata = None

InitDb ==
    /\ db_call = None
    /\ db_result = None

\* setup_hook has started the polling task
InitLife ==
    /\ task = "running"
    /\ raised = {}
    /\ gap = None
    /\ faults = 0

\* the tag ids of the tracked feeds (feeds.tag_id, UNIQUE NOT NULL)
InitFeedRows == {[id |-> 1, tag_id |-> "t1"], [id |-> 2, tag_id |-> "t2"]}

\* no command has run yet
InitCmd ==
    /\ suppressed = {}
    /\ feed_rows = InitFeedRows
    /\ calls = <<>>

Init == InitBot /\ InitFn /\ InitDb /\ InitLife /\ InitCmd

(***************************************************************************)
(* The site: a work is listed at the head of a feed; the feed retains its  *)
(* MaxWindow most recent listings.  The bot reads a feed only when it      *)
(* fetches it, so a listing is taken between cycles or before a fetch.     *)
(***************************************************************************)
Publish(f, i) ==
    /\ pc \in {"idle", "fetch"}
    /\ i \in Listed[f]
    /\ \A k \in 1..Len(remote[f]) : remote[f][k] # i
    /\ remote' = [remote EXCEPT
                    ![f] = SubSeq(<<i>> \o @, 1, IF Len(@) < MaxWindow
                                                  THEN Len(@) + 1 ELSE MaxWindow)]
    /\ UNCHANGED <<storeVars, now, pollVars, histVars, fnVars, dbVars, lifeVars, cmdVars>>

(***************************************************************************)
(* bot.py, poll_feeds: one action per step between two awaits.             *)
(***************************************************************************)
feed == cycle_feeds[fi]
subscription == subscriptions[si]
entry == filtered_entries[ei]

\* the attempts of a cycle that the notifier reported as failed
Failed(l) == {<<l[k].subscription_id, l[k].entry_id>> : k \in {j \in 1..Len(l) : ~l[j].success}}

\* feeds = await db.get_all_feeds(); the loop then takes the first feed
StartCycle ==
    /\ pc = "idle"
    /\ now' = IF now < MaxClock THEN now + 1 ELSE now
    /\ cycle_feeds' = get_all_feeds
    /\ fi' = 1
    /\ pc' = IF get_all_feeds = <<>> THEN "idle" ELSE "fetch"
    /\ UNCHANGED <<storeVars, remote, fetched, entries, new_entries,
                   subscriptions, si, filtered_entries, ei, histVars, fnVars, dbVars, lifeVars, cmdVars>>

\* a failed fetch that still records the poll timestamp
FetchFail_records_poll ==
    /\ pc = "fetch"
    /\ fetched' = "fail"
    /\ pc' = "next_feed"
    /\ feeds' = [feeds EXCEPT ![feed.id].last_updated = Some(now)]
    /\ UNCHANGED <<feed_channels, excluded_tags, notified_entries, remote, now,
                   cycle_feeds, fi, entries, new_entries, subscriptions, si,
                   filtered_entries, ei, histVars, fnVars, dbVars, lifeVars, cmdVars>>

\* a failed fetch that is tried again within the cycle
FetchFail_retries ==
    /\ pc = "fetch"
    /\ fetched' = "fail"
    /\ pc' = "fetch"
    /\ UNCHANGED <<storeVars, remote, now, cycle_feeds, fi, entries, new_entries,
                   subscriptions, si, filtered_entries, ei, histVars, fnVars, dbVars, lifeVars, cmdVars>>

\* fetch_and_parse returned None: warning, continue
FetchFail ==
    /\ pc = "fetch"
    /\ fetched' = "fail"
    /\ pc' = "next_feed"
    /\ UNCHANGED <<storeVars, remote, now, cycle_feeds, fi, entries, new_entries,
                   subscriptions, si, filtered_entries, ei, histVars, fnVars, dbVars, lifeVars, cmdVars>>

\* an empty list that still records the poll timestamp
FetchEmpty_records_poll ==
    /\ pc = "fetch"
    /\ remote[feed.id] = <<>>
    /\ fetched' = "ok"
    /\ pc' = "next_feed"
    /\ feeds' = [feeds EXCEPT ![feed.id].last_updated = Some(now)]
    /\ UNCHANGED <<feed_channels, excluded_tags, notified_entries, remote, now,
                   cycle_feeds, fi, entries, new_entries, subscriptions, si,
                   filtered_entries, ei, histVars, fnVars, dbVars, lifeVars, cmdVars>>

\* the feed was fetched and lists no entry: continue
FetchEmpty ==
    /\ pc = "fetch"
    /\ remote[feed.id] = <<>>
    /\ fetched' = "ok"
    /\ pc' = "next_feed"
    /\ UNCHANGED <<storeVars, remote, now, cycle_feeds, fi, entries, new_entries,
                   subscriptions, si, filtered_entries, ei, histVars, fnVars, dbVars, lifeVars, cmdVars>>

\* the entries parse_entry builds from the fetched feed, in the feed's order
Parsed(f) == [k \in 1..Len(remote[f]) |-> Catalogue[remote[f][k]]]

\* the no-new-entries branch continuing without its update_feed_metadata
AfterDetect_no_update(new) == IF new = <<>> THEN "next_feed" ELSE "get_subs"

\* where the loop goes once new_entries is known
AfterDetect(new) == IF new = <<>> THEN "update_meta" ELSE "get_subs"

\* the feed was fetched: sort, then detect the new entries
FetchEntries ==
    /\ pc = "fetch"
    /\ remote[feed.id] # <<>>
    /\ fetched' = "ok"
    /\ entries' = sorted(Parsed(feed.id))
    /\ new_entries' = get_new_entries(entries', feed.last_entry_id)
    /\ seen' = [seen EXCEPT ![feed.id] = @ \cup {remote[feed.id][k] : k \in 1..Len(remote[feed.id])}]
    /\ pc' = AfterDetect(new_entries')
    /\ UNCHANGED <<storeVars, remote, now, cycle_feeds, fi,
                   subscriptions, si, filtered_entries, ei, log, failedPrev, sent, fnVars, dbVars, lifeVars, cmdVars>>

\* subscriptions = await db.get_subscriptions_with_excluded_tags(feed_id)
GetSubscriptionsStep ==
    /\ pc = "get_subs"
    /\ subscriptions' = get_subscriptions_with_excluded_tags(feed.id)
    /\ IF subscriptions' = <<>>
       THEN /\ pc' = "update_meta"
            /\ UNCHANGED <<si, filtered_entries, ei>>
       ELSE /\ si' = 1
            /\ filtered_entries' =
                  filter_entries_by_tags(new_entries, subscriptions'[1].excluded_tags)
            /\ ei' = 1
            /\ pc' = "entry_loop"
    /\ UNCHANGED <<storeVars, remote, now, cycle_feeds, fi, fetched, entries,
                   new_entries, histVars, fnVars, dbVars, lifeVars>>

GetSubscriptions == GetSubscriptionsStep /\ UNCHANGED cmdVars

\* the entries of a subscription are exhausted: next subscription, or the
\* marker write when it was the last
EntriesDoneStep ==
    /\ pc = "entry_loop"
    /\ ei > Len(filtered_entries)
    /\ IF si < Len(subscriptions)
       THEN /\ si' = si + 1
            /\ filtered_entries' =
                  filter_entries_by_tags(new_entries, subscriptions[si + 1].excluded_tags)
            /\ ei' = 1
            /\ pc' = "entry_loop"
       ELSE /\ pc' = "update_meta"
            /\ UNCHANGED <<si, filtered_entries, ei>>
    /\ UNCHANGED <<storeVars, remote, now, cycle_feeds, fi, fetched, entries,
                   new_entries, subscriptions, histVars, fnVars, dbVars, lifeVars>>

EntriesDone == EntriesDoneStep /\ UNCHANGED cmdVars

\* if await db.is_entry_notified(subscription_id, entry_id): continue
AlreadyNotified ==
    /\ pc = "entry_loop"
    /\ ei <= Len(filtered_entries)
    /\ is_entry_notified(subscription.subscription_id, entry.id)
    /\ ei' = ei + 1
    /\ UNCHANGED <<storeVars, remote, now, pc, cycle_feeds, fi, fetched, entries,
                   new_entries, subscriptions, si, filtered_entries, histVars, fnVars, dbVars, lifeVars, cmdVars>>

NotNotified ==
    /\ pc = "entry_loop"
    /\ ei <= Len(filtered_entries)
    /\ ~is_entry_notified(subscription.subscription_id, entry.id)
    /\ pc' = "send"
    /\ UNCHANGED <<storeVars, remote, now, cycle_feeds, fi, fetched, entries,
                   new_entries, subscriptions, si, filtered_entries, ei, histVars, fnVars, dbVars, lifeVars, cmdVars>>

Attempt(ok) ==
    [subscription_id |-> subscription.subscription_id, entry_id |-> entry.id, success |-> ok]

\* record_notification called whatever send_entry_notification returned
AfterSend_always_record(success) == "record"

\* a failed delivery abandoning the rest of the feed's deliveries
AfterSend_failure_ends_feed(success) == IF success THEN "record" ELSE "update_meta"

\* `if success:` guards record_notification
AfterSend(success) == IF success THEN "record" ELSE "entry_loop"

\* send_entry_notification returned True
SendOk ==
    /\ pc = "send"
    /\ log' = Append(log, Attempt(TRUE))
    /\ sent' = [sent EXCEPT ![<<subscription.subscription_id, entry.id>>] =
                    IF @ < 2 THEN @ + 1 ELSE @]
    /\ pc' = AfterSend(TRUE)
    /\ ei' = IF pc' = "record" THEN ei ELSE ei + 1
    /\ UNCHANGED <<storeVars, remote, now, cycle_feeds, fi, fetched, entries,
                   new_entries, subscriptions, si, filtered_entries,
                   failedPrev, seen, fnVars, dbVars, lifeVars, cmdVars>>

\* send_entry_notification returned False: channel missing, no permission,
\* Forbidden, or any other exception
SendFail ==
    /\ pc = "send"
    /\ log' = Append(log, Attempt(FALSE))
    /\ pc' = AfterSend(FALSE)
    /\ ei' = IF pc' = "record" THEN ei ELSE ei + 1
    /\ UNCHANGED <<storeVars, remote, now, cycle_feeds, fi, fetched, entries,
                   new_entries, subscriptions, si, filtered_entries,
                   failedPrev, sent, seen, fnVars, dbVars, lifeVars, cmdVars>>

\* await db.record_notification(subscription_id, entry_id)
RecordNotification ==
    /\ pc = "record"
    /\ LET r == record_notification(subscription.subscription_id, entry.id)
       IN  /\ notified_entries' = r.rows
           \* an exception leaves the feed through `except Exception: continue`
           /\ pc' = IF r.error = "none" THEN "entry_loop" ELSE "next_feed"
    /\ ei' = ei + 1
    /\ UNCHANGED <<feeds, feed_channels, excluded_tags, remote, now, cycle_feeds, fi,
                   fetched, entries, new_entries, subscriptions, si, filtered_entries,
                   histVars, fnVars, dbVars, lifeVars, cmdVars>>

\* the marker taken from the last entry of the ordered list
UpdateFeedMetadata_oldest_marker ==
    /\ pc = "update_meta"
    /\ feeds' = update_feed_metadata(feed.id, now, entries[Len(entries)].id)
    /\ pc' = "next_feed"
    /\ UNCHANGED <<feed_channels, excluded_tags, notified_entries, remote, now,
                   cycle_feeds, fi, fetched, entries, new_entries, subscriptions, si,
                   filtered_entries, ei, histVars, fnVars, dbVars, lifeVars, cmdVars>>

\* await db.update_feed_metadata(feed_id, datetime.utcnow(), entries[0]["id"])
UpdateFeedMetadata ==
    /\ pc = "update_meta"
    /\ feeds' = update_feed_metadata(feed.id, now, entries[1].id)
    /\ pc' = "next_feed"
    /\ UNCHANGED <<feed_channels, excluded_tags, notified_entries, remote, now,
                   cycle_feeds, fi, fetched, entries, new_entries, subscriptions, si,
                   filtered_entries, ei, histVars, fnVars, dbVars, lifeVars, cmdVars>>

\* the for loop takes the next feed, or the cycle is completed
NextFeed ==
    /\ pc = "next_feed"
    /\ fi' = fi + 1
    /\ pc' = IF fi < Len(cycle_feeds) THEN "fetch" ELSE "idle"
    /\ fetched' = "none"
    /\ entries' = <<>>
    /\ new_entries' = <<>>
    /\ subscriptions' = <<>>
    /\ si' = 0
    /\ filtered_entries' = <<>>
    /\ ei' = 0
    /\ IF fi < Len(cycle_feeds)
       THEN UNCHANGED <<log, failedPrev, raised, gap>>
       ELSE /\ failedPrev' = Failed(log)
            /\ log' = <<>>
            /\ raised' = {}
            /\ gap' = None
    /\ UNCHANGED <<storeVars, remote, now, cycle_feeds, sent, seen, fnVars, dbVars,
                   task, faults, cmdVars>>

Poll ==
    \/ StartCycle
    \/ FetchFail
    \/ FetchEmpty
    \/ FetchEntries
    \/ GetSubscriptions
    \/ EntriesDone
    \/ AlreadyNotified
    \/ NotNotified
    \/ SendOk
    \/ SendFail
    \/ RecordNotification
    \/ UpdateFeedMetadata
    \/ NextFeed

Next ==
    \/ Poll
    \/ \E f \in FeedIds, i \in Ids : Publish(f, i)

Spec == Init /\ [][Next]_vars

(***************************************************************************)
(* The polling loop under the scheduling the bot runs with: tasks.loop     *)
(* keeps starting cycles and every step of a cycle is eventually taken; a  *)
(* fetch that is tried again and again eventually succeeds, and so does a  *)
(* delivery.  The site is free to stop listing works.                      *)
(***************************************************************************)
Steps ==
    \/ StartCycle
    \/ GetSubscriptions
    \/ EntriesDone
    \/ AlreadyNotified
    \/ NotNotified
    \/ RecordNotification
    \/ UpdateFeedMetadata
    \/ NextFeed

FetchSucceeds == FetchEmpty \/ FetchEntries

FairSpec ==
    /\ Spec
    /\ WF_vars(Steps)
    /\ WF_vars(FetchFail \/ FetchSucceeds)
    /\ WF_vars(SendOk \/ SendFail)
    /\ SF_vars(FetchSucceeds)
    /\ SF_vars(SendOk)

(***************************************************************************)
(* The polling loop with the store raising: every awaited store call of    *)
(* poll_feeds can raise (connection lost, pool closed, constraint); the    *)
(* two except clauses of poll_feeds are program positions of their own.    *)
(* send_entry_notification and fetch_and_parse catch what they raise.      *)
(* The bot starts on a store an earlier run may have left a marker in, and *)
(* on feeds that list what they list for as long as the run lasts; the     *)
(* notifier accepts every delivery (a refused one is followed in Spec).    *)
(***************************************************************************)
Running == task = "running"

\* the steps of poll_feeds while the polling task runs and no delivery is
\* refused
PollDelivering ==
    \/ Running /\ StartCycle
    \/ Running /\ FetchFail
    \/ Running /\ FetchEmpty
    \/ Running /\ FetchEntries
    \/ Running /\ GetSubscriptions
    \/ Running /\ EntriesDone
    \/ Running /\ AlreadyNotified
    \/ Running /\ NotNotified
    \/ Running /\ SendOk
    \/ Running /\ RecordNotification
    \/ Running /\ UpdateFeedMetadata
    \/ Running /\ NextFeed

\* the lists a feed can serve: works that carry its tag, each once
Listings(f) ==
    {l \in UNION {[1..n -> Listed[f]] : n \in 0..MaxWindow} :
        \A j, k \in 1..Len(l) : j # k => l[j] # l[k]}

\* the feeds rows: never polled, or polled by an earlier run that left a
\* marker and no delivery record (no subscriber yet, or no delivery made)
FeedRows(f) ==
    {[last_updated |-> None, last_entry_id |-> None]}
        \cup {[last_updated |-> Some(0), last_entry_id |-> Some(i)] : i \in Listed[f]}

InitTracked ==
    /\ feeds \in [FeedIds -> UNION {FeedRows(f) : f \in FeedIds}]
    /\ \A f \in FeedIds : feeds[f] \in FeedRows(f)
    /\ feed_channels = InitFeedChannels
    /\ excluded_tags = InitExcludedTags
    /\ notified_entries = EmptyBag
    /\ remote \in [FeedIds -> UNION {Listings(f) : f \in FeedIds}]
    /\ \A f \in FeedIds : remote[f] \in Listings(f)
    /\ now = 0
    /\ InitPoll
    /\ log = <<>>
    /\ failedPrev = {}
    /\ sent = [p \in SubIds \X Ids |-> 0]
    /\ seen = [f \in FeedIds |->
                 IF feeds[f].last_entry_id = None THEN {} ELSE {feeds[f].last_entry_id[1]}]
    /\ InitFn
    /\ InitDb
    /\ InitLife
    /\ InitCmd

\* a store call made while a feed is processed raises: get_subscriptions_
\* with_excluded_tags, is_entry_notified, record_notification or
\* update_feed_metadata; the statement has no effect
FeedException ==
    /\ Running
    /\ \/ pc \in {"get_subs", "record", "update_meta"}
       \/ pc = "entry_loop" /\ ei <= Len(filtered_entries)
    /\ pc' = "feed_except"
    /\ raised' = raised \cup {fi}
    /\ UNCHANGED <<storeVars, remote, now, cycle_feeds, fi, fetched, entries,
                   new_entries, subscriptions, si, filtered_entries, ei,
                   histVars, fnVars, dbVars, task, gap, cmdVars>>
    /\ faults < MaxFaults
    /\ faults' = faults + 1

\* the except clause ending the cycle instead of the feed
FeedExcept_aborts_cycle ==
    /\ Running
    /\ pc = "feed_except"
    /\ pc' = "idle"
    /\ UNCHANGED <<storeVars, remote, now, cycle_feeds, fi, fetched, entries,
                   new_entries, subscriptions, si, filtered_entries, ei,
                   histVars, fnVars, dbVars, lifeVars, cmdVars>>

\* an except clause that advances the marker of the feed it abandons
FeedExcept_writes_marker ==
    /\ Running
    /\ pc = "feed_except"
    /\ pc' = "next_feed"
    /\ feeds' = IF entries = <<>> THEN feeds
                ELSE update_feed_metadata(feed.id, now, entries[1].id)
    /\ UNCHANGED <<feed_channels, excluded_tags, notified_entries, remote, now,
                   cycle_feeds, fi, fetched, entries,
                   new_entries, subscriptions, si, filtered_entries, ei,
                   histVars, fnVars, dbVars, lifeVars, cmdVars>>

\* except Exception as e: logger.error(...); continue
FeedExcept ==
    /\ Running
    /\ pc = "feed_except"
    /\ pc' = "next_feed"
    /\ UNCHANGED <<storeVars, remote, now, cycle_feeds, fi, fetched, entries,
                   new_entries, subscriptions, si, filtered_entries, ei,
                   histVars, fnVars, dbVars, lifeVars, cmdVars>>

\* feeds = await db.get_all_feeds() raises
CycleException ==
    /\ Running
    /\ pc = "idle"
    /\ now' = IF now < MaxClock THEN now + 1 ELSE now
    /\ pc' = "cycle_except"
    /\ raised' = {0}
    /\ UNCHANGED <<storeVars, remote, cycle_feeds, fi, fetched, entries,
                   new_entries, subscriptions, si, filtered_entries, ei,
                   histVars, fnVars, dbVars, task, gap, cmdVars>>
    /\ faults < MaxFaults
    /\ faults' = faults + 1

\* poll_feeds without its outer except clause: the exception leaves the
\* coroutine and tasks.loop ends the task
CycleExcept_escapes ==
    /\ Running
    /\ pc = "cycle_except"
    /\ pc' = "idle"
    /\ task' = "failed"
    /\ UNCHANGED <<storeVars, remote, now, cycle_feeds, fi, fetched, entries,
                   new_entries, subscriptions, si, filtered_entries, ei,
                   histVars, fnVars, dbVars, raised, gap, faults, cmdVars>>

\* except Exception as e: logger.error(...); poll_feeds returns and
\* tasks.loop waits for the next interval
CycleExcept ==
    /\ Running
    /\ pc = "cycle_except"
    /\ pc' = "idle"
    /\ UNCHANGED <<storeVars, remote, now, cycle_feeds, fi, fetched, entries,
                   new_entries, subscriptions, si, filtered_entries, ei,
                   histVars, fnVars, dbVars, lifeVars, cmdVars>>

ExcNext ==
    \/ PollDelivering
    \/ FeedException
    \/ FeedExcept
    \/ CycleException
    \/ CycleExcept

ExcSpec == InitTracked /\ [][ExcNext]_vars

(***************************************************************************)
(* The polling loop over feeds whose body the feed-syntax parser reports   *)
(* as malformed (parsed.bozo).  fetch_and_parse logs a warning and returns *)
(* the entries feedparser could extract: the listing up to the point where *)
(* the body breaks, which may be all of it or none of it.  The store and   *)
(* the feeds start as in ExcSpec.                                          *)
(***************************************************************************)

\* the orchestrator skipping a feed whose body was reported as malformed
FetchMalformed_skipped(n) ==
    /\ pc = "fetch"
    /\ n <= Len(remote[feed.id])
    /\ fetched' = "bozo"
    /\ entries' = sorted(SubSeq(Parsed(feed.id), 1, n))
    /\ pc' = "next_feed"
    /\ UNCHANGED <<storeVars, remote, now, cycle_feeds, fi, new_entries,
                   subscriptions, si, filtered_entries, ei, histVars, fnVars, dbVars, lifeVars, cmdVars>>

\* parsed.bozo is set: a warning, then the dict with the n entries that
\* were extracted is returned, and poll_feeds goes on as after any fetch
FetchMalformed(n) ==
    /\ pc = "fetch"
    /\ n <= Len(remote[feed.id])
    /\ fetched' = "bozo"
    /\ LET extracted == SubSeq(Parsed(feed.id), 1, n)
       IN  IF extracted = <<>>
           THEN /\ pc' = "next_feed"
                /\ UNCHANGED <<entries, new_entries, seen>>
           ELSE /\ entries' = sorted(extracted)
                /\ new_entries' = get_new_entries(entries', feed.last_entry_id)
                /\ seen' = [seen EXCEPT ![feed.id] = @ \cup {extracted[k].id : k \in 1..n}]
                /\ pc' = AfterDetect(new_entries')
    /\ UNCHANGED <<storeVars, remote, now, cycle_feeds, fi,
                   subscriptions, si, filtered_entries, ei, log, failedPrev, sent, fnVars, dbVars, lifeVars, cmdVars>>

MalNext ==
    \/ PollDelivering
    \/ \E n \in 0..MaxWindow : Running /\ FetchMalformed(n)

MalSpec == InitTracked /\ [][MalNext]_vars

(***************************************************************************)
(* The polling loop in a process that is shut down, crashes and is         *)
(* started again.  close() cancels the polling task: Loop.cancel() throws  *)
(* CancelledError into the coroutine at the await it is suspended in, and  *)
(* no except clause of poll_feeds catches it.  A crash loses the memory of *)
(* the process and keeps the store.  A process that was shut down is not   *)
(* followed further: started again it behaves as after a crash at the same *)
(* position.  The store and the feeds start as in ExcSpec.                 *)
(***************************************************************************)
\* close(): self.poll_feeds.cancel()
Cancel ==
    /\ Running
    /\ task' = "cancelled"
    /\ UNCHANGED <<storeVars, remote, now, pollVars, histVars, fnVars, dbVars,
                   raised, gap, faults, cmdVars>>

\* the delivery that was sent and whose record_notification is still to run
Unrecorded ==
    IF pc = "record"
    THEN Some([subscription_id |-> subscription.subscription_id,
               entry_id |-> entry.id,
               feed_id |-> feed.id,
               entries |-> entries])
    ELSE None

\* a crash after which the record of the delivered entry is in the store,
\* as if send and record were one transaction
Crash_record_committed ==
    /\ Running
    /\ task' = "dead"
    /\ gap' = Unrecorded
    /\ notified_entries' =
          IF pc = "record"
          THEN record_notification(subscription.subscription_id, entry.id).rows
          ELSE notified_entries
    /\ pc' = "idle"
    /\ cycle_feeds' = <<>>
    /\ fi' = 0
    /\ fetched' = "none"
    /\ entries' = <<>>
    /\ new_entries' = <<>>
    /\ subscriptions' = <<>>
    /\ si' = 0
    /\ filtered_entries' = <<>>
    /\ ei' = 0
    /\ log' = <<>>
    /\ failedPrev' = {}
    /\ raised' = {}
    /\ UNCHANGED <<feeds, feed_channels, excluded_tags, remote, now, sent, seen,
                   fnVars, dbVars, cmdVars>>
    /\ faults < MaxFaults
    /\ faults' = faults + 1

\* the process dies: its memory is lost, the store keeps its rows
Crash ==
    /\ Running
    /\ task' = "dead"
    /\ gap' = Unrecorded
    /\ pc' = "idle"
    /\ cycle_feeds' = <<>>
    /\ fi' = 0
    /\ fetched' = "none"
    /\ entries' = <<>>
    /\ new_entries' = <<>>
    /\ subscriptions' = <<>>
    /\ si' = 0
    /\ filtered_entries' = <<>>
    /\ ei' = 0
    /\ log' = <<>>
    /\ failedPrev' = {}
    /\ raised' = {}
    /\ UNCHANGED <<storeVars, remote, now, sent, seen, fnVars, dbVars, cmdVars>>
    /\ faults < MaxFaults
    /\ faults' = faults + 1

\* main() runs again: setup_hook starts the polling task
Restart ==
    /\ task = "dead"
    /\ task' = "running"
    /\ UNCHANGED <<storeVars, remote, now, pollVars, histVars, fnVars, dbVars,
                   raised, gap, faults, cmdVars>>

LifeNext ==
    \/ PollDelivering
    \/ Cancel
    \/ Crash
    \/ Restart

LifeSpec == InitTracked /\ [][LifeNext]_vars

(***************************************************************************)
(* The store on its own: any caller, the polling loop or a command, calls  *)
(* the operations on notified_entries in any order.                        *)
(***************************************************************************)
Call(op, s, i) == Some([op |-> op, feed_channel_id |-> s, entry_id |-> i])

DbRecordNotification(s, i) ==
    /\ LET r == record_notification(s, i)
       IN  /\ notified_entries' = r.rows
           /\ db_result' = Some([error |-> r.error, caught |-> r.caught])
    /\ db_call' = Call("record_notification", s, i)
    /\ UNCHANGED <<feeds, feed_channels, excluded_tags, remote, now, pollVars,
                   histVars, fnVars, lifeVars, cmdVars>>

DbIsEntryNotified(s, i) ==
    /\ db_result' = Some(is_entry_notified(s, i))
    /\ db_call' = Call("is_entry_notified", s, i)
    /\ UNCHANGED <<storeVars, remote, now, pollVars, histVars, fnVars, lifeVars, cmdVars>>

DbNext ==
    \E s \in SubIds, i \in Ids :
        \/ DbRecordNotification(s, i)
        \/ DbIsEntryNotified(s, i)

DbSpec == Init /\ [][DbNext]_vars

(***************************************************************************)
(* The pure functions on their own.  The inputs are the entry lists the    *)
(* parser can hand over: ids are unique except the empty id of an entry    *)
(* that carries none, timestamps may be missing, and the list is sorted, as*)
(* poll_feeds sorts it, before the new entries are detected.               *)
(***************************************************************************)
FnIds == {"w1", "w2", ""}
FnTimes == {<<NoTime, NoTime>>, <<NoTime, 1>>, <<1, 1>>, <<2, 1>>}
FnPool == {Entry(i, t[1], t[2], {}) : i \in FnIds, t \in FnTimes}
FnMarkers == {None} \cup {Some(i) : i \in FnIds \cup {"w3"}}

UniqueIds(es) ==
    \A j, k \in 1..Len(es) : (j # k /\ es[j].id = es[k].id) => es[j].id = ""

FnInit ==
    /\ InitBot
    /\ InitDb
    /\ InitLife
    /\ InitCmd
    /\ arg_excluded = {}
    /\ flt_result = None
    /\ arg_entries \in UNION {[1..n -> FnPool] : n \in 0..MaxLen}
    /\ UniqueIds(arg_entries)
    /\ arg_marker \in FnMarkers
    /\ fn_entries = <<>>
    /\ fn_result = None
    /\ html_content = <<>>
    /\ ext_tag_names = None
    /\ ext_metadata = None

\* entries = sorted(...); new_entries = get_new_entries(entries, last_entry_id)
ApplyGetNewEntries ==
    /\ fn_result = None
    /\ fn_entries' = sorted(arg_entries)
    /\ fn_result' = Some(get_new_entries(fn_entries', arg_marker))
    /\ UNCHANGED <<storeVars, remote, now, pollVars, histVars,
                   arg_entries, arg_marker, arg_excluded, flt_result,
                   html_content, ext_tag_names, ext_metadata, dbVars, lifeVars, cmdVars>>

FnNext == ApplyGetNewEntries

FnSpec == FnInit /\ [][FnNext]_vars

(***************************************************************************)
(* The exclusion filter on its own: entry lists whose tag names differ in  *)
(* case and in length from the excluded names of a subscription.           *)
(***************************************************************************)
FltTagSets == {{}, {"Fluff", "Angst"}, {"Fluffy"}, {"fluff"}, {"Angst"}}
FltPool == {Entry(i, 1, 1, t) : i \in {"w1", "w2"}, t \in FltTagSets}
FltExcluded == {"fluff", "FLUFF", "Hurt/Comfort", "angst"}

FltInit ==
    /\ InitBot
    /\ InitDb
    /\ InitLife
    /\ InitCmd
    /\ arg_entries \in UNION {[1..n -> FltPool] : n \in 0..MaxLen}
    /\ arg_excluded \in SUBSET FltExcluded
    /\ arg_marker = None
    /\ fn_entries = <<>>
    /\ fn_result = None
    /\ flt_result = None
    /\ html_content = <<>>
    /\ ext_tag_names = None
    /\ ext_metadata = None

\* filtered_entries = feed_parser.filter_entries_by_tags(new_entries, excluded_tag_names)
ApplyFilter ==
    /\ flt_result = None
    /\ flt_result' = Some(filter_entries_by_tags(arg_entries, arg_excluded))
    /\ UNCHANGED <<storeVars, remote, now, pollVars, histVars, arg_entries,
                   arg_marker, fn_entries, fn_result, arg_excluded,
                   html_content, ext_tag_names, ext_metadata, dbVars, lifeVars, cmdVars>>

FltNext == ApplyFilter

FltSpec == FltInit /\ [][FltNext]_vars

(***************************************************************************)
(* feed_parser.py: the metadata extractor on its own.  A summary fragment  *)
(* is a sequence of tokens: the text around a label ("label"), a hyperlink *)
(* ("a": its inner text, and the first path element and the next path      *)
(* segment of its href), the end of a list item ("/li") and of the list    *)
(* ("/ul"), and the counts line ("words", "chapters", "language").  The    *)
(* regular expressions of the extractor are applied to the tokens.         *)
(***************************************************************************)
Tok(t, text, path, seg) == [t |-> t, text |-> text, path |-> path, seg |-> seg]
Label(text) == Tok("label", text, "", "")
\* <a href="https://archiveofourown.org/tags/SEG/works">TEXT</a>
TagLink(seg, text) == Tok("a", text, "tags", seg)
\* <a rel="author" href="https://archiveofourown.org/users/SEG/pseuds/SEG">TEXT</a>
UserLink(seg, text) == Tok("a", text, "users", seg)
EndLi == Tok("/li", "", "", "")
EndUl == Tok("/ul", "", "", "")

\* the labels of the tag sections, in the order of the upstream layout
SectionOrder ==
    <<"Warnings:", "Categories:", "Characters:", "Relationships:", "Additional Tags:">>

SectionField ==
    <<"warnings", "categories", "characters", "relationships", "additional_tags">>

\* urllib.parse.unquote on the path segments of the pool
unquote(seg) ==
    CASE seg = "Hurt%2FComfort" -> "Hurt/Comfort"
      [] seg = "Harry%20Potter" -> "Harry Potter"
      [] seg = "General%20Audiences" -> "General Audiences"
      [] OTHER -> seg

\* int() on the digits of the pool
int(digits) ==
    CASE digits = "1234" -> 1234
      [] OTHER -> 0

\* str.strip()
strip(s) ==
    CASE s = "English\n" -> "English"
      [] OTHER -> s

\* re.findall(r'href="https://archiveofourown\.org/tags/([^"/]+)', html)
\* restricted to the hyperlinks that follow the first label
extract_tag_names_after_first_label(html) ==
    {unquote(html[k].seg) : k \in {n \in 1..Len(html) :
        /\ html[n].t = "a"
        /\ html[n].path = "tags"
        /\ html[n].seg # ""
        /\ \E m \in 1..(n - 1) : html[m].t = "label"}}

\* re.findall(r'href="https://archiveofourown\.org/tags/([^"/]+)', html),
\* each match unquoted and added to a set
extract_tag_names(html) ==
    {unquote(html[k].seg) : k \in {n \in 1..Len(html) :
        html[n].t = "a" /\ html[n].path = "tags" /\ html[n].seg # ""}}

\* the alternatives that end the lazy group of section k with only the
\* later labels among them
IsTerminator_labels_only(tok, k) ==
    /\ tok.t = "label"
    /\ \E n \in (k + 1)..Len(SectionOrder) : tok.text = SectionOrder[n]

\* (?:Categories:|...|</li>): the later labels and the end of the list
\* item; for the last section (?:</li>|</ul>)
IsTerminator(tok, k) ==
    \/ tok.t = "/li"
    \/ k = Len(SectionOrder) /\ tok.t = "/ul"
    \/ /\ tok.t = "label"
       /\ \E n \in (k + 1)..Len(SectionOrder) : tok.text = SectionOrder[n]

\* the least of a set of token positions, 0 when there is none: a search
\* returns its leftmost match
FirstIndex(S) == IF S = {} THEN 0 ELSE CHOOSE n \in S : \A m \in S : n <= m

\* re.search(LABEL \s*(.*?)(?:...)): <<i, j>>, the token of the first
\* occurrence of the label, matched with its case, and the first
\* terminator after it; <<0, 0>> when the expression does not match
Span(html, k) ==
    LET i == FirstIndex({n \in 1..Len(html) :
                     html[n].t = "label" /\ html[n].text = SectionOrder[k]})
        j == IF i = 0 THEN 0
             ELSE FirstIndex({n \in (i + 1)..Len(html) : IsTerminator(html[n], k)})
    IN  IF j = 0 THEN <<0, 0>> ELSE <<i, j>>

\* the links of a span with repeated values dropped
findall_links_distinct(text) ==
    LET as == SelectSeq(text, LAMBDA tok : tok.t = "a" /\ tok.text # "")
        first == SelectSeq([n \in 1..Len(as) |-> n],
                     LAMBDA n : \A m \in 1..(n - 1) : as[m].text # as[n].text)
    IN  [n \in 1..Len(first) |-> as[first[n]].text]

\* re.findall(r'<a[^>]*>([^<]+)</a>', text)
findall_links(text) ==
    LET as == SelectSeq(text, LAMBDA tok : tok.t = "a" /\ tok.text # "")
    IN  [n \in 1..Len(as) |-> as[n].text]

\* metadata[field] of section k: [] unless the expression matches
SectionLinks(html, k) ==
    LET sp == Span(html, k)
    IN  IF sp = <<0, 0>> THEN <<>>
        ELSE findall_links(SubSeq(html, sp[1] + 1, sp[2] - 1))

\* Rating:\s*<a[^>]*>([^<]+)</a>: the label with a hyperlink right after it
RatingAt(html) ==
    FirstIndex({n \in 1..(Len(html) - 1) :
                   /\ html[n].t = "label" /\ html[n].text = "Rating:"
                   /\ html[n + 1].t = "a" /\ html[n + 1].text # ""})

extract_metadata(html) ==
    LET w == FirstIndex({n \in 1..Len(html) : html[n].t = "words"})
        c == FirstIndex({n \in 1..Len(html) : html[n].t = "chapters"})
        l == FirstIndex({n \in 1..Len(html) : html[n].t = "language"})
        r == RatingAt(html)
    IN  [words |-> IF w = 0 THEN None ELSE Some(int(html[w].text)),
         chapters |-> IF c = 0 THEN None ELSE Some(html[c].text),
         language |-> IF l = 0 THEN None ELSE Some(strip(html[l].text)),
         rating |-> IF r = 0 THEN None ELSE Some(html[r + 1].text),
         warnings |-> SectionLinks(html, 1),
         categories |-> SectionLinks(html, 2),
         characters |-> SectionLinks(html, 3),
         relationships |-> SectionLinks(html, 4),
         additional_tags |-> SectionLinks(html, 5)]

\* the hyperlinks of the pool
Fluff == TagLink("Fluff", "Fluff")
HurtComfort == TagLink("Hurt%2FComfort", "Hurt/Comfort")

\* what a list item holds after its label
ItemLinks ==
    {<<>>, <<Fluff>>, <<Fluff, Fluff>>, <<Fluff, HurtComfort>>, <<HurtComfort, Fluff>>}

\* <li>LABEL links</li>
Item(text, links) == <<Label(text)>> \o links \o <<EndLi>>

\* the spellings of the label of section k
Spellings(k) ==
    IF k = 1 THEN {SectionOrder[1], "warnings:"} ELSE {SectionOrder[k]}

\* section k of a fragment: absent, or a list item
Items(k) == {<<>>} \cup {Item(text, links) : text \in Spellings(k), links \in ItemLinks}

\* what precedes the list: nothing, the author, or a mention of the fandom
Leads ==
    {<<>>,
     <<UserLink("someone", "someone")>>,
     <<TagLink("Harry%20Potter", "Harry Potter")>>}

\* <p>Words: 1234, Chapters: 1/?, Language: English</p> and the rating
\* item, or neither
CountsLines ==
    {<<>>,
     <<Tok("words", "1234", "", ""), Tok("chapters", "Chapters: 1/?", "", ""),
       Tok("language", "English\n", "", "")>>
        \o Item("Rating:", <<TagLink("General%20Audiences", "General Audiences")>>)}

\* the summary fragments of the upstream layout
Fragments ==
    {lead \o counts \o i1 \o i2 \o i3 \o i4 \o i5 \o <<EndUl>> :
        lead \in Leads, counts \in CountsLines, i1 \in Items(1), i2 \in Items(2),
        i3 \in Items(3), i4 \in Items(4), i5 \in Items(5)}

ExtInit ==
    /\ InitBot
    /\ InitDb
    /\ InitLife
    /\ InitCmd
    /\ arg_entries = <<>>
    /\ arg_marker = None
    /\ fn_entries = <<>>
    /\ fn_result = None
    /\ arg_excluded = {}
    /\ flt_result = None
    /\ html_content \in Fragments
    /\ ext_tag_names = None
    /\ ext_metadata = None

\* tag_names = extract_tag_names(summary_html);
\* metadata = _extract_metadata(summary_html)
ApplyExtract ==
    /\ ext_metadata = None
    /\ ext_tag_names' = Some(extract_tag_names(html_content))
    /\ ext_metadata' = Some(extract_metadata(html_content))
    /\ UNCHANGED <<storeVars, remote, now, pollVars, histVars, arg_entries, arg_marker,
                   fn_entries, fn_result, arg_excluded, flt_result, html_content,
                   dbVars, lifeVars, cmdVars>>

ExtNext == ApplyExtract

ExtSpec == ExtInit /\ [][ExtNext]_vars

(***************************************************************************)
(* Properties.                                                             *)
(***************************************************************************)
Pair(s, i) == <<s, i>>
Recorded(s, i) == BagIn(Pair(s, i), notified_entries)
Attempted(s, i) ==
    \E k \in 1..Len(log) : log[k].subscription_id = s /\ log[k].entry_id = i

\* entry i was detected as new in the running poll of a feed that
\* subscription s follows, and the exclusion set of s does not match it
Due(s, i) ==
    /\ pc = "entry_loop"
    /\ \E k \in 1..Len(subscriptions) :
          /\ subscriptions[k].subscription_id = s
          /\ \E j \in 1..Len(new_entries) :
                /\ new_entries[j].id = i
                /\ Passes(new_entries[j], subscriptions[k].excluded_tags)

\* C1: every entry that becomes new for a feed is eventually delivered to
\* each subscriber whose exclusion set does not match it, and is never
\* delivered to that subscriber twice.
C1_DeliveredExactlyOnce ==
    \A s \in SubIds, i \in Ids :
        /\ Due(s, i) ~> (sent[Pair(s, i)] >= 1)
        /\ [](sent[Pair(s, i)] <= 1)

\* C2: the store holds at most one delivery record for each
\* (subscription_id, entry_id) pair.
C2_AtMostOneRecord ==
    \A p \in BagToSet(notified_entries) : CopiesIn(p, notified_entries) = 1

\* a pair was recorded again, beside other records
C2_Witness ==
    /\ db_call # None
    /\ db_call[1].op = "record_notification"
    /\ db_result[1].caught = "UniqueViolationError"
    /\ BagCardinality(notified_entries) >= 2

\* C3: a delivery the notifier reports as failed writes no delivery record,
\* and it is attempted again in the next polling cycle of that feed: when
\* the next poll of the feed still lists the entry for that subscriber, the
\* pair is among the attempts of that cycle.
C3_FailedNotRecordedAndRetried ==
    /\ \A k \in 1..Len(log) :
          ~log[k].success => ~Recorded(log[k].subscription_id, log[k].entry_id)
    /\ (pc = "next_feed" /\ fetched = "ok") =>
          \A p \in failedPrev :
             (/\ \E r \in feed_channels : r.id = p[1] /\ r.feed_id = feed.id
              /\ \E k \in 1..Len(entries) : entries[k].id = p[2])
             => Attempted(p[1], p[2])

\* C4: no delivery is attempted while its delivery record exists, in the
\* marker-not-found fallback as elsewhere: whenever the loop is about to
\* send entry e to subscription s, the store holds no record (s, e).
C4_NoAttemptWhileRecorded ==
    pc = "send" => ~Recorded(subscription.subscription_id, entry.id)

\* the marker fell out of the window, the whole list is new again, and an
\* entry already recorded for the subscription was passed over
C4_Witness ==
    /\ pc = "send"
    /\ ~Falsy(feed.last_entry_id)
    /\ IndexOf(entries, feed.last_entry_id[1]) = 0
    /\ \E k \in 1..(ei - 1) :
          Recorded(subscription.subscription_id, filtered_entries[k].id)

\* C5: every delivery record belongs to a delivery the notifier reported
\* as successful.
C5_RecordOnlyAfterSuccess ==
    \A p \in BagToSet(notified_entries) : sent[p] >= 1

\* a failed delivery left no record while a successful one left its record
C5_Witness ==
    /\ \E k \in 1..Len(log) :
          /\ ~log[k].success
          /\ ~Recorded(log[k].subscription_id, log[k].entry_id)
    /\ \E k \in 1..Len(log) :
          /\ log[k].success
          /\ Recorded(log[k].subscription_id, log[k].entry_id)

\* C6: record_notification is idempotent: a call raises no error and
\* leaves the pair recorded, a call on a recorded pair leaves the records
\* unchanged, and is_entry_notified returns true for a recorded pair.
C6_RecordIdempotent ==
    /\ [][\A s \in SubIds, i \in Ids :
            db_call' = Call("record_notification", s, i) =>
               /\ db_result'[1].error = "none"
               /\ BagIn(Pair(s, i), notified_entries')
               /\ Recorded(s, i) => notified_entries' = notified_entries]_vars
    /\ [](\A s \in SubIds, i \in Ids :
            (db_call = Call("is_entry_notified", s, i) /\ Recorded(s, i))
               => db_result = Some(TRUE))

\* a recorded pair was recorded once more and the call returned normally
C6_Witness ==
    /\ db_call # None
    /\ db_call[1].op = "record_notification"
    /\ db_result[1].caught = "UniqueViolationError"
    /\ db_result[1].error = "none"
    /\ CopiesIn(Pair(db_call[1].feed_channel_id, db_call[1].entry_id),
                notified_entries) = 1

C8_MarkerWasListed ==
    \A f \in FeedIds :
        \/ feeds[f].last_entry_id = None
        \/ feeds[f].last_entry_id[1] \in seen[f]

\* both feeds carry a marker, and they differ
C8_Witness ==
    /\ feeds[1].last_entry_id = Some("w1")
    /\ feeds[2].last_entry_id = Some("w3")

Count(es, e) == Cardinality({k \in 1..Len(es) : es[k] = e})

\* C9: with no marker the detector returns all N entries of the list, each
\* as often as the list holds it.
C9_NoMarkerAllNew ==
    (fn_result # None /\ arg_marker = None) =>
        /\ Len(fn_result[1]) = Len(fn_entries)
        /\ \A e \in FnPool : Count(fn_result[1], e) = Count(fn_entries, e)

\* the detector ran without a marker on a list of several entries
C9_Witness ==
    /\ fn_result # None
    /\ arg_marker = None
    /\ Len(fn_entries) >= 2

\* C10: for a marker that is the id of the entry at index k of the ordered
\* list, the detector returns exactly the k entries before it, in order.
C10_PrefixBeforeMarker ==
    (fn_result # None /\ arg_marker # None) =>
        \A k \in 1..Len(fn_entries) :
            fn_entries[k].id = arg_marker[1] =>
                fn_result[1] = SubSeq(fn_entries, 1, k - 1)

\* C11: for an ordered list and a marker whose id occurs nowhere in it, the
\* detector returns the full list unchanged: same entries, same order.
C11_AbsentMarkerWholeList ==
    (/\ fn_result # None
     /\ arg_marker # None
     /\ \A k \in 1..Len(fn_entries) : fn_entries[k].id # arg_marker[1])
    => fn_result[1] = fn_entries

\* the detector ran with a marker that is not in a list of several entries,
\* two of them with the same sort key
C11_Witness ==
    /\ fn_result # None
    /\ arg_marker = Some("w3")
    /\ Len(fn_entries) >= 2
    /\ \E j, k \in 1..Len(fn_entries) :
          j < k /\ SortKey(fn_entries[j]) = SortKey(fn_entries[k])

\* the orders in which a list of n entries can be rearranged
Perms(n) == {p \in [1..n -> 1..n] : \A a, b \in 1..n : a # b => p[a] # p[b]}

HasTime(e) == e.updated # NoTime \/ e.published # NoTime

\* C12: the orderer returns the entries it was given, in descending order
\* of the key (updated if present, else published if present, else a
\* sentinel ordered before every real timestamp), entries with equal keys
\* in their original relative order.
C12_SortedDescendingStable ==
    fn_result # None =>
        /\ Len(fn_entries) = Len(arg_entries)
        /\ \E p \in Perms(Len(arg_entries)) :
              /\ \A k \in 1..Len(fn_entries) : fn_entries[k] = arg_entries[p[k]]
              /\ \A j, k \in 1..Len(fn_entries) :
                    j < k =>
                       LET kj == IF fn_entries[j].updated # NoTime THEN fn_entries[j].updated
                                 ELSE fn_entries[j].published
                           kk == IF fn_entries[k].updated # NoTime THEN fn_entries[k].updated
                                 ELSE fn_entries[k].published
                       IN  /\ HasTime(fn_entries[k]) =>
                                 HasTime(fn_entries[j]) /\ kj >= kk
                           /\ (HasTime(fn_entries[j]) = HasTime(fn_entries[k])
                                /\ (HasTime(fn_entries[j]) => kj = kk))
                               => p[j] < p[k]

\* a list that was not in order was sorted, and it holds two different
\* entries with the same key and an entry without any timestamp
C12_Witness ==
    /\ fn_result # None
    /\ fn_entries # arg_entries
    /\ Len(fn_entries) = 3
    /\ \E j, k \in 1..3 :
          /\ j < k
          /\ fn_entries[j] # fn_entries[k]
          /\ HasTime(fn_entries[j])
          /\ SortKey(fn_entries[j]) = SortKey(fn_entries[k])
    /\ \E k \in 1..3 : ~HasTime(fn_entries[k])


\* the tag names of the model that are the same name up to letter case
SameNames == {{"Fluff", "FLUFF", "fluff"}, {"Angst", "angst"}, {"Fluffy"},
              {"Hurt/Comfort"}}
SameFolded(a, b) == \E c \in SameNames : a \in c /\ b \in c

\* no tag name of the entry is, up to case, an excluded name
Kept(e, excluded) ==
    \A a \in e.tag_names, b \in excluded : ~SameFolded(a, b)

\* C13: the filter keeps an entry if and only if no tag name of the entry
\* equals, up to letter case, an excluded name of the subscriber: whole
\* names are compared, never substrings or prefixes; the kept entries stay
\* in order, and with an empty exclusion set every entry is kept.
C13_KeptIffDisjoint ==
    flt_result # None =>
        /\ flt_result[1] = SelectSeq(arg_entries, LAMBDA e : Kept(e, arg_excluded))
        /\ arg_excluded = {} => flt_result[1] = arg_entries

\* an entry tagged {Fluff, Angst} was dropped for the excluded name fluff
\* while an entry tagged Fluffy was kept
C13_Witness ==
    /\ flt_result # None
    /\ arg_excluded = {"fluff", "Hurt/Comfort"}
    /\ Len(arg_entries) = 3
    /\ arg_entries[1].tag_names = {"Fluff", "Angst"}
    /\ arg_entries[2].tag_names = {"Fluffy"}
    /\ flt_result[1] = <<arg_entries[2], arg_entries[3]>>


\* the excluded names the store holds for subscription s
ExclusionOf(s) == {t.tag_name : t \in {x \in excluded_tags : x.feed_channel_id = s}}

Matches(e, s) == \E a \in e.tag_names, b \in ExclusionOf(s) : SameFolded(a, b)

C15_FetchFailureTouchesNothing ==
    /\ [][(pc = "fetch" /\ fetched' = "fail") =>
             /\ storeVars' = storeVars
             /\ log' = log
             /\ sent' = sent
             /\ pc' = "next_feed"
             /\ fi' = fi]_vars
    /\ [][(pc = "next_feed" /\ fetched = "fail") =>
             /\ storeVars' = storeVars
             /\ sent' = sent
             /\ fi' = fi + 1
             /\ fi < Len(cycle_feeds) => pc' = "fetch"
             /\ fi = Len(cycle_feeds) => pc' = "idle"]_vars

\* the fetch of the first feed failed while the store holds its marker and
\* a delivery record, and the second feed is still to come
C15_Witness ==
    /\ pc = "next_feed"
    /\ fetched = "fail"
    /\ fi = 1
    /\ Len(cycle_feeds) = 2
    /\ feeds[1].last_entry_id = Some("w2")
    /\ Recorded(1, "w2")

\* C17: a failed delivery stops neither the remaining entries of that
\* subscriber nor the remaining subscribers: once every subscriber of a
\* polled feed was processed in a cycle with a failed delivery, every
\* entry that survived a subscriber's filter was attempted for that
\* subscriber in this cycle, unless its delivery record already existed.
C17_FailureDoesNotStopOthers ==
    (pc = "update_meta" /\ subscriptions # <<>> /\ Failed(log) # {}) =>
        \A k \in 1..Len(subscriptions) :
            LET s == subscriptions[k].subscription_id
                surviving == filter_entries_by_tags(new_entries, subscriptions[k].excluded_tags)
            IN  \A n \in 1..Len(surviving) :
                    Attempted(s, surviving[n].id) \/ Recorded(s, surviving[n].id)

\* the first delivery of the cycle failed; the next entry of the same
\* subscriber and an entry of the next subscriber were delivered after it
C17_Witness ==
    /\ pc = "update_meta"
    /\ Len(log) = 3
    /\ ~log[1].success
    /\ log[2].success /\ log[2].subscription_id = log[1].subscription_id
    /\ log[3].success /\ log[3].subscription_id # log[1].subscription_id


\* C16: an exception raised while a feed is processed is caught at the
\* feed boundary: the polling task keeps running, the loop goes on from
\* the feed that raised to the feeds after it, and a cycle ends only when
\* the loop has taken every feed it enumerated.
C16_FeedExceptionCaughtAtFeedBoundary ==
    /\ Running
    /\ \A k \in raised \ {0} :
          \/ fi = k /\ pc \in {"feed_except", "next_feed"}
          \/ fi > k
    /\ (pc = "idle" /\ cycle_feeds # <<>>) => fi = Len(cycle_feeds) + 1

\* record_notification raised for the first feed after its delivery was
\* sent, and the second feed of the same cycle was polled to its marker
\* write
C16_Witness ==
    /\ pc = "next_feed"
    /\ fi = 2
    /\ 1 \in raised
    /\ sent[Pair(1, "w2")] = 1
    /\ ~Recorded(1, "w2")
    /\ fetched = "ok"
    /\ now = 1
    /\ feeds[2].last_updated = Some(1)

\* C18: an exception at the cycle boundary ends only the current cycle:
\* the except clause leaves the loop between two cycles with the polling
\* task running and the store as it was, so that the next cycle starts.
C18_CycleExceptionEndsOnlyTheCycle ==
    /\ [](0 \in raised => Running)
    /\ [][pc = "cycle_except" =>
             /\ pc' = "idle"
             /\ task' = "running"
             /\ storeVars' = storeVars]_vars

\* get_all_feeds raised, and the cycle after it has started and fetched
C18_Witness ==
    /\ 0 \in raised
    /\ Running
    /\ pc = "get_subs"
    /\ now = 2

\* C19: the polling task is cancelled only between cycle iterations, never
\* in the middle of a feed's processing; a fetch in flight may be cut off.
C19_CancelledOnlyBetweenCycles ==
    task = "cancelled" => pc \in {"idle", "fetch", "next_feed"}

\* C20: after a crash between a successful delivery of entry e to
\* subscription s and its record, the first cycle after the restart that
\* polls the feed and finds the same entries attempts the delivery of e to
\* s again: by its marker write the pair was attempted in this cycle and
\* delivered a second time.
C20_CrashGapRedelivers ==
    (/\ gap # None
     /\ Running
     /\ pc = "update_meta"
     /\ feed.id = gap[1].feed_id
     /\ entries = gap[1].entries)
    => /\ Attempted(gap[1].subscription_id, gap[1].entry_id)
       /\ sent[Pair(gap[1].subscription_id, gap[1].entry_id)] = 2

\* the delivery of w1 to subscription 1 was cut off from its record by a
\* crash, and the cycle after the restart delivered w1 again and recorded it
C20_Witness ==
    /\ gap # None
    /\ gap[1].subscription_id = 1
    /\ gap[1].entry_id = "w1"
    /\ Running
    /\ pc = "update_meta"
    /\ feed.id = gap[1].feed_id
    /\ sent[Pair(1, "w1")] = 2
    /\ Recorded(1, "w1")


(***************************************************************************)
(* The polling cycle end to end: attempt order, first poll, re-poll,       *)
(* sequential feeds, append-only delivery records.                         *)
(***************************************************************************)

\* the entry ids of the running cycle's attempts for subscription s, in
\* the order the attempts were made
AttemptIds(s) ==
    LET mine == SelectSeq(log, LAMBDA a : a.subscription_id = s)
    IN  [k \in 1..Len(mine) |-> mine[k].entry_id]

IdsOf(es) == [k \in 1..Len(es) |-> es[k].id]

\* C21: within one cycle the attempts made for one subscriber follow the
\* ordered entry list: of two attempts of the running feed for the same
\* subscriber, the earlier one is for the entry that stands earlier
\* (newer) in the ordered list.
C21_AttemptsNewestFirst ==
    (pc \in {"entry_loop", "send", "record", "update_meta"}) =>
        \A j, k \in 1..Len(log) :
            (/\ j < k
             /\ log[j].subscription_id = log[k].subscription_id
             /\ \E n \in 1..Len(subscriptions) :
                   subscriptions[n].subscription_id = log[j].subscription_id) =>
                /\ IndexOf(entries, log[j].entry_id) > 0
                /\ IndexOf(entries, log[j].entry_id) < IndexOf(entries, log[k].entry_id)

\* subscription 2, which excludes fluff, was sent w2 and then the older
\* entry without an id, and subscription 1 was sent two entries as well
C21_Witness ==
    /\ pc = "update_meta"
    /\ AttemptIds(2) = <<"w2", "">>
    /\ Len(AttemptIds(1)) = 2
    /\ SortKey(entries[1]) > SortKey(entries[2])

\* the subscriptions of the running feed whose exclusion set is empty
Unfiltered ==
    {subscriptions[k].subscription_id : k \in
        {n \in 1..Len(subscriptions) : subscriptions[n].excluded_tags = {}}}

\* C22: the first poll of a feed (no marker stored) that lists N entries
\* attempts, for a subscriber with no exclusions, exactly the N entries in
\* the order of the sorted list, and leaves the id of the newest entry as
\* the feed's marker.
C22_FirstPollDeliversAll ==
    /\ (pc = "update_meta" /\ feed.last_entry_id = None) =>
          \A s \in Unfiltered : AttemptIds(s) = IdsOf(entries)
    /\ (pc = "next_feed" /\ fetched = "ok" /\ entries # <<>>
        /\ feed.last_entry_id = None) =>
          feeds[feed.id].last_entry_id = Some(entries[1].id)

\* the first poll of feed 1 listed two entries; both were attempted for
\* subscription 1, newest first, and the marker is the newer one
C22_Witness ==
    /\ pc = "next_feed"
    /\ feed.id = 1
    /\ feed.last_entry_id = None
    /\ Len(entries) = 2
    /\ AttemptIds(1) = <<"w2", "w1">>
    /\ feeds[1].last_entry_id = Some("w2")

\* entry i had no delivery record for subscription s when the running
\* cycle began
NewFor(s, i) ==
    \/ ~Recorded(s, i)
    \/ \E k \in 1..Len(log) :
          log[k].subscription_id = s /\ log[k].entry_id = i /\ log[k].success

\* the marker the running poll started from stands at this position of
\* the ordered list (0: no marker stored, or not listed)
MarkerAt ==
    IF feed.last_entry_id = None THEN 0
    ELSE IndexOf(entries, feed.last_entry_id[1])

\* C23: a poll that finds the entry named by the stored marker behind
\* k >= 1 new entries attempts, for a subscriber with no exclusions,
\* exactly those k entries and none of the entries from the marker on, and
\* advances the marker to the new newest entry.
C23_RepollDeliversOnlyNew ==
    /\ (pc = "update_meta" /\ MarkerAt > 1) =>
          \A s \in Unfiltered :
              (\A j \in 1..(MarkerAt - 1) : NewFor(s, entries[j].id)) =>
                  AttemptIds(s) = IdsOf(SubSeq(entries, 1, MarkerAt - 1))
    /\ (pc = "next_feed" /\ fetched = "ok" /\ entries # <<>> /\ MarkerAt > 1) =>
          feeds[feed.id].last_entry_id = Some(entries[1].id)

\* C24: the feeds of a cycle are taken one after the other and each is
\* fetched at most once: the cycle's feed list names no feed twice, a
\* fetch result arrives only at the fetch position of a feed that has none
\* yet and moves the loop off that position, and the fetch position is
\* entered only for the first feed of a new cycle or the next feed of the
\* running one, so a failed fetch is not tried again in the cycle.
C24_SequentialOneFetchPerCycle ==
    /\ [](\A j, k \in 1..Len(cycle_feeds) :
              j # k => cycle_feeds[j].id # cycle_feeds[k].id)
    /\ [][/\ (fetched' # fetched /\ fetched' # "none") =>
                (pc = "fetch" /\ fetched = "none" /\ pc' # "fetch" /\ fi' = fi)
          /\ (pc = "fetch" /\ pc' = "fetch") =>
                (fi' = fi /\ fetched' = fetched)
          /\ (pc # "fetch" /\ pc' = "fetch") =>
                \/ pc = "idle" /\ fi' = 1
                \/ pc = "next_feed" /\ fi' = fi + 1]_vars

\* the fetch of the cycle's last feed failed and the loop moved on
C24_Witness ==
    /\ pc = "next_feed"
    /\ fetched = "fail"
    /\ fi = Len(cycle_feeds)
    /\ fi = 2

\* C25: the polling pipeline only adds delivery records: no step removes
\* a record or changes one that exists.
C25_RecordsOnlyGrow ==
    [][\A r \in BagToSet(notified_entries) :
          CopiesIn(r, notified_entries') >= CopiesIn(r, notified_entries)]_vars

\* records of three deliveries, written over two cycles
C25_Witness ==
    /\ Cardinality(BagToSet(notified_entries)) >= 3
    /\ now = 2


\* C26: a body reported as malformed is not a failed fetch: the entries
\* that were extracted are ordered and run through new-entry detection,
\* every new one that passes a subscriber's filter is attempted for that
\* subscriber (or its record exists already), and the poll ends with the
\* marker on the newest extracted entry and the poll timestamp written,
\* as for a well-formed feed.
C26_MalformedFeedStillProcessed ==
    /\ (fetched = "bozo" /\ entries # <<>>) =>
          /\ entries = sorted(entries)
          /\ new_entries = get_new_entries(entries, feed.last_entry_id)
          /\ pc # "fetch"
    /\ (fetched = "bozo" /\ pc = "update_meta" /\ subscriptions # <<>>) =>
          \A k \in 1..Len(subscriptions) :
              LET s == subscriptions[k].subscription_id
                  due == filter_entries_by_tags(new_entries, ExclusionOf(s))
              IN  \A j \in 1..Len(due) :
                      Attempted(s, due[j].id) \/ Recorded(s, due[j].id)
    /\ (fetched = "bozo" /\ pc = "next_feed" /\ entries # <<>>) =>
          /\ feeds[feed.id].last_entry_id = Some(entries[1].id)
          /\ feeds[feed.id].last_updated = Some(now)

\* feed 1 lists two works and its body breaks after the first: that one
\* was delivered to subscription 1 and recorded, and it is the marker
C26_Witness ==
    /\ pc = "next_feed"
    /\ fetched = "bozo"
    /\ feed.id = 1
    /\ Len(remote[1]) = 2
    /\ Len(entries) = 1
    /\ feed.last_entry_id = None
    /\ AttemptIds(1) = <<entries[1].id>>
    /\ Recorded(1, entries[1].id)
    /\ feeds[1].last_entry_id = Some(entries[1].id)


(***************************************************************************)
(* The metadata extractor: missing sections, tag names, spans, links.      *)
(***************************************************************************)

\* the fragment without the list item of section k: the tokens from the
\* section's label to the end of its item are taken out
Without(html, k) ==
    LET i == FirstIndex({n \in 1..Len(html) :
                     html[n].t = "label" /\ html[n].text = SectionOrder[k]})
        j == FirstIndex({n \in (i + 1)..Len(html) : html[n].t = "/li"})
    IN  IF i = 0 \/ j = 0 THEN html
        ELSE SubSeq(html, 1, i - 1) \o SubSeq(html, j + 1, Len(html))

HasLabel(html, text) == \E n \in 1..Len(html) : html[n].t = "label" /\ html[n].text = text

\* C27: the extractor is total over missing sections: a fragment that
\* lacks the label of a section yields the empty sequence for that section,
\* and taking a section out of a fragment empties that section's field and
\* leaves every other field of the result as it was.
C27_MissingSectionEmptyOthersKept ==
    ext_metadata # None =>
        \A k \in 1..Len(SectionOrder) :
            LET m == extract_metadata(Without(html_content, k))
            IN  /\ ~HasLabel(html_content, SectionOrder[k]) =>
                      ext_metadata[1][SectionField[k]] = <<>>
                /\ m[SectionField[k]] = <<>>
                /\ \A f \in (DOMAIN m) \ {SectionField[k]} : m[f] = ext_metadata[1][f]

\* a fragment with no warnings item whose other fields are all populated
C27_Witness ==
    /\ ext_metadata # None
    /\ ~HasLabel(html_content, "Warnings:")
    /\ ~HasLabel(html_content, "warnings:")
    /\ ext_metadata[1].warnings = <<>>
    /\ ext_metadata[1].words = Some(1234)
    /\ ext_metadata[1].chapters = Some("Chapters: 1/?")
    /\ ext_metadata[1].language = Some("English")
    /\ ext_metadata[1].rating = Some("General Audiences")
    /\ ext_metadata[1].categories = <<"Fluff">>
    /\ ext_metadata[1].characters = <<"Fluff", "Hurt/Comfort">>
    /\ ext_metadata[1].relationships = <<"Hurt/Comfort", "Fluff">>
    /\ ext_metadata[1].additional_tags = <<"Fluff", "Fluff">>

\* the hyperlinks of a fragment whose target has the tag-URL shape
TagLinksOf(html) ==
    {html[n] : n \in {k \in 1..Len(html) : html[k].t = "a" /\ html[k].path = "tags"}}

\* C28: the tag-name set holds the decoded path segment, in its own case,
\* of every hyperlink of the fragment that points to a tag, inside a
\* labelled section or not, and nothing else.  (The inner text of a tag
\* link of the pool is the name its path segment encodes.)
C28_TagNamesFromWholeFragment ==
    ext_tag_names # None =>
        ext_tag_names[1] = {tok.text : tok \in TagLinksOf(html_content)}

\* a fandom mentioned before the list, an author link, and an encoded name
\* inside a section
C28_Witness ==
    /\ ext_tag_names # None
    /\ html_content[1] = TagLink("Harry%20Potter", "Harry Potter")
    /\ HasLabel(html_content, "Characters:")
    /\ ext_tag_names[1] = {"Harry Potter", "General Audiences", "Fluff", "Hurt/Comfort"}

\* two spellings of one label
SameLabel(a, b) ==
    LET fold(x) == IF x = "warnings:" THEN "Warnings:" ELSE x
    IN  fold(a) = fold(b)

\* the content of section k as the sentence defines it: from the label,
\* found without regard to case, to the next label of a later section, or
\* to the end of the fragment
ContentOf(html, k) ==
    LET i == FirstIndex({n \in 1..Len(html) :
                     html[n].t = "label" /\ SameLabel(html[n].text, SectionOrder[k])})
        j == FirstIndex({n \in (i + 1)..Len(html) :
                     /\ html[n].t = "label"
                     /\ \E x \in (k + 1)..Len(SectionOrder) :
                           SameLabel(html[n].text, SectionOrder[x])})
    IN  IF i = 0 THEN <<>>
        ELSE SubSeq(html, i + 1, (IF j = 0 THEN Len(html) + 1 ELSE j) - 1)

LinkTexts(text) ==
    LET as == SelectSeq(text, LAMBDA tok : tok.t = "a")
    IN  [n \in 1..Len(as) |-> as[n].text]

\* C29: each section label is found by a case-insensitive search and the
\* section's content runs from the end of its label to the next label of
\* the defined order, or to the end of the fragment: the field of every
\* section holds the links of that content.
C29_LabelsFoundIgnoringCase ==
    ext_metadata # None =>
        \A k \in 1..Len(SectionOrder) :
            ext_metadata[1][SectionField[k]] = LinkTexts(ContentOf(html_content, k))

\* C30: where a section's expression matches, the section's field holds
\* the inner text of every hyperlink between the label and the end of the
\* match, one value per hyperlink, in the order of appearance, repeated
\* values included.
C30_EveryLinkOfSpanInOrder ==
    ext_metadata # None =>
        \A k \in 1..Len(SectionOrder) :
            LET sp == Span(html_content, k)
                as == SelectSeq(SubSeq(html_content, sp[1] + 1, sp[2] - 1),
                                LAMBDA tok : tok.t = "a")
                got == ext_metadata[1][SectionField[k]]
            IN  sp # <<0, 0>> =>
                    /\ Len(got) = Len(as)
                    /\ \A n \in 1..Len(as) : got[n] = as[n].text

\* a section that names one tag twice and one that names two tags, the
\* encoded one first
C30_Witness ==
    /\ ext_metadata # None
    /\ ext_metadata[1].warnings = <<"Fluff", "Fluff">>
    /\ ext_metadata[1].categories = <<"Hurt/Comfort", "Fluff">>
    /\ ext_metadata[1].additional_tags = <<>>
    /\ HasLabel(html_content, "Additional Tags:")


(***************************************************************************)
(* Interrupted polls, unchanged feeds, the marker branches, what is        *)
(* attempted, empty lists.                                                 *)
(***************************************************************************)

\* C33: the marker-absent branch of the detector is taken only by a feed
\* that has no marker stored, that is, one that never completed a poll of
\* a non-empty list: once a marker was written, whatever id it is, a poll
\* takes the found or the not-found branch.
C33_AbsentBranchOnlyBeforeFirstMarker ==
    (fetched = "ok" /\ entries # <<>>) =>
        (get_new_entries_branch(entries, feed.last_entry_id) = "absent" =>
            feed.last_entry_id = None)

\* the subscription that made an attempt follows the feed being polled
OfRunningFeed(a) ==
    \E r \in feed_channels : r.id = a.subscription_id /\ r.feed_id = feed.id

\* C34: every attempt of a poll is for an entry the detector returned as
\* new in that poll and that passed the filter of the receiving
\* subscriber; when the stored marker names an entry of the list, no entry
\* at or below it is attempted.
C34_OnlyNewUnfilteredAttempted ==
    (pc \in {"entry_loop", "send", "record", "update_meta"}) =>
        \A k \in 1..Len(log) :
            OfRunningFeed(log[k]) =>
                /\ \E n \in 1..Len(new_entries) :
                      /\ new_entries[n].id = log[k].entry_id
                      /\ ~Matches(new_entries[n], log[k].subscription_id)
                /\ MarkerAt > 0 => IndexOf(entries, log[k].entry_id) < MarkerAt

\* a fetch that succeeded and listed no entry
EmptyFetch == pc = "fetch" /\ fetched' = "ok" /\ remote[feed.id] = <<>>

\* C35: a successful fetch of an empty list changes no state: the step
\* and the rest of that feed's turn leave the marker, the poll timestamp
\* and the delivery records as they were and attempt no delivery.
C35_EmptyListChangesNothing ==
    /\ [][EmptyFetch => (pc' = "next_feed" /\ UNCHANGED <<storeVars, log, sent>>)]_vars
    /\ [][(pc = "next_feed" /\ fetched = "ok" /\ entries = <<>>) =>
              UNCHANGED <<storeVars, sent>>]_vars

\* feed 1 carried a marker and a timestamp from an earlier run; it was
\* fetched in the second cycle of this run, listed nothing, and both are
\* as they were
C35_Witness ==
    /\ pc = "next_feed"
    /\ fetched = "ok"
    /\ entries = <<>>
    /\ feed.id = 1
    /\ now = 2
    /\ feeds[1] = [last_updated |-> Some(0), last_entry_id |-> Some("w1")]


\* no poll of feed f has written its marker in this run
NotYetPolled(f) == feeds[f].last_updated \in {None, Some(0)}

\* C31: an exception raised while a feed is processed, anywhere before its
\* marker write, leaves the feed's stored marker and poll timestamp as they
\* were: the exception and the except clause write nothing, and the marker
\* of the abandoned feed is the one the cycle started from.  The next
\* cycle that polls the feed to its end therefore detects the entries
\* from that marker again, and by its marker write every subscriber has
\* been attempted, or already holds the record, for each of them that
\* passes its filter.
C31_InterruptedFeedKeepsMarker ==
    /\ [][(pc' = "feed_except" \/ pc = "feed_except") => feeds' = feeds]_vars
    /\ []((fi \in raised /\ pc \in {"feed_except", "next_feed"}) =>
              feeds[feed.id].last_entry_id = feed.last_entry_id)
    /\ []((/\ pc = "update_meta"
           /\ faults > 0
           /\ raised = {}
           /\ NotYetPolled(feed.id)) =>
              /\ new_entries = get_new_entries(entries, feeds[feed.id].last_entry_id)
              /\ \A k \in 1..Len(subscriptions) :
                    LET s == subscriptions[k].subscription_id
                        surviving == filter_entries_by_tags(new_entries,
                                         subscriptions[k].excluded_tags)
                    IN  \A n \in 1..Len(surviving) :
                            Attempted(s, surviving[n].id) \/ Recorded(s, surviving[n].id))

\* an earlier cycle delivered w2 to subscription 1 and was interrupted
\* before subscription 2 was reached; the marker stayed, this cycle found
\* w2 new again, skipped it for subscription 1 and sent it to subscription 2
C31_Witness ==
    /\ pc = "update_meta"
    /\ feed.id = 1
    /\ faults > 0
    /\ raised = {}
    /\ NotYetPolled(1)
    /\ new_entries # <<>>
    /\ new_entries[1].id = "w2"
    /\ Recorded(1, "w2")
    /\ ~Attempted(1, "w2")
    /\ Attempted(2, "w2")
    /\ sent[Pair(2, "w2")] = 1


\* the feed being polled completed a poll earlier in this run; the site
\* serves the same list as then
Repolled ==
    /\ pc \in {"get_subs", "entry_loop", "send", "record", "update_meta"}
    /\ fetched = "ok"
    /\ ~NotYetPolled(feed.id)

\* C32: polling an unchanged feed again is a no-op for deliveries: the
\* second of two successful polls that return the same list detects no
\* new entry and goes straight to its marker write, with no attempt and
\* no record on the way, and the id it is about to write is the marker
\* the feed has.
C32_RepollOfUnchangedFeedIsNoOp ==
    Repolled =>
        /\ new_entries = <<>>
        /\ pc = "update_meta"
        /\ feeds[feed.id].last_entry_id = Some(entries[1].id)

(***************************************************************************)
(* The unsubscribe command running while the bot polls.  A command is a    *)
(* coroutine of the same event loop as poll_feeds, so its store statement  *)
(* runs between two steps of a cycle, at any of the cycle's awaits.  The   *)
(* store and the feeds start as in ExcSpec; every delivery succeeds.       *)
(***************************************************************************)
\* DELETE FROM feed_channels WHERE feed_id = $1 AND channel_id = $2, with
\* the ON DELETE CASCADE of excluded_tags and notified_entries: the three
\* tables afterwards
delete_subscription(feed_id, channel_id) ==
    LET gone == {r \in feed_channels : r.feed_id = feed_id /\ r.channel_id = channel_id}
        ids == {r.id : r \in gone}
    IN  [feed_channels |-> feed_channels \ gone,
         excluded_tags |-> {t \in excluded_tags : t.feed_channel_id \notin ids},
         notified_entries |->
            [r \in {x \in DOMAIN notified_entries : x[1] \notin ids} |->
                notified_entries[r]],
         deleted |-> gone # {}]

\* /untrack once the feed and the channel are resolved:
\* deleted = await db.delete_subscription(feed_id, target_channel.id)
DeleteSubscription(feed_id, channel_id) ==
    LET d == delete_subscription(feed_id, channel_id)
    IN  /\ d.deleted
        /\ feed_channels' = d.feed_channels
        /\ excluded_tags' = d.excluded_tags
        /\ notified_entries' = d.notified_entries
        /\ UNCHANGED <<feeds, remote, now, pollVars, histVars, fnVars, dbVars,
                       lifeVars, cmdVars>>

UntrackNext ==
    \/ PollDelivering
    \/ \E r \in InitFeedChannels : DeleteSubscription(r.feed_id, r.channel_id)

UntrackSpec == InitTracked /\ [][UntrackNext]_vars

\* the subscription row with this id is in feed_channels
Subscribed(s) == \E r \in feed_channels : r.id = s

\* C37: under any interleaving of unsubscribe with a running polling cycle
\* no delivery record references a subscription that does not exist:
\* deleting a subscription removes its delivery records, and a
\* record_notification for a subscription that was deleted after the cycle
\* read the subscriber list creates no record.
C37_NoRecordOfDeletedSubscription ==
    /\ [](\A r \in BagToSet(notified_entries) : Subscribed(r[1]))
    /\ [][\A s \in SubIds : (Subscribed(s) /\ ~Subscribed(s)') =>
              \A i \in Ids : ~Recorded(s, i)']_vars
    /\ [][(pc = "record" /\ pc' # "record" /\ ~Subscribed(subscription.subscription_id)) =>
              (notified_entries' = notified_entries /\ pc' = "next_feed")]_vars

\* subscription 2 was deleted between its delivery of the first of its two
\* entries and the record_notification for it: the delivery was made, no
\* record exists, and the feed was left while subscription 1 keeps its
\* records
C37_Witness ==
    /\ pc = "next_feed"
    /\ fetched = "ok"
    /\ ~Subscribed(2)
    /\ Len(subscriptions) = 2
    /\ si = 2
    /\ Len(filtered_entries) = 2
    /\ ei = 2
    /\ log # <<>>
    /\ log[Len(log)] = [subscription_id |-> 2, entry_id |-> filtered_entries[1].id,
                        success |-> TRUE]
    /\ sent[Pair(2, filtered_entries[1].id)] = 1
    /\ \A i \in Ids : ~Recorded(2, i)
    /\ Recorded(1, filtered_entries[1].id)

(***************************************************************************)
(* Subscribe commands running side by side.  /track resolves the tag and   *)
(* awaits db.get_or_create_feed, which takes a connection of the pool and  *)
(* awaits a SELECT and then, when no row was found, an INSERT: another     *)
(* command's statements can run between the two.  feed_rows is the feeds   *)
(* table as these statements see it; no feed is polled meanwhile and no    *)
(* statement of the program deletes a feeds row.                           *)
(***************************************************************************)
\* the commands that can be in flight together
Commands == {1, 2, 3}

\* the tag ids the commands ask for: one tracked already, two unknown
TagIds == {"t1", "t3", "t4"}

\* SELECT id FROM feeds WHERE tag_id = $1 (fetchval: the id, or None)
select_feed_id(tag_id) ==
    IF \E r \in feed_rows : r.tag_id = tag_id
    THEN Some((CHOOSE r \in feed_rows : r.tag_id = tag_id).id)
    ELSE None

\* the INSERT statements executed so far, each of which took a value of the
\* SERIAL sequence whether or not it stored a row
Inserts ==
    Cardinality(feed_rows) +
    Cardinality({c \in DOMAIN calls : calls[c].error # "none"})

\* INSERT INTO feeds (tag_id) VALUES ($1) RETURNING id under tag_id UNIQUE:
\* the rows afterwards, the id returned and the exception raised
insert_feed(tag_id) ==
    IF \E r \in feed_rows : r.tag_id = tag_id
    THEN [rows |-> feed_rows, feed_id |-> None, error |-> "UniqueViolationError"]
    ELSE [rows |-> feed_rows \cup {[id |-> Inserts + 1, tag_id |-> tag_id]},
          feed_id |-> Some(Inserts + 1), error |-> "none"]

\* feed_id = await db.get_or_create_feed(extracted_tag_id): the call is made
GetOrCreateFeed(c, tag_id) ==
    /\ c \notin DOMAIN calls
    /\ calls' = calls @@ (c :> [tag_id |-> tag_id, pc |-> "select",
                                feed_id |-> None, error |-> "none"])
    /\ UNCHANGED <<storeVars, remote, now, pollVars, histVars, fnVars, dbVars,
                   lifeVars, suppressed, feed_rows>>

\* the SELECT returns; `if feed_id: return feed_id`
SelectFeed(c) ==
    /\ c \in DOMAIN calls
    /\ calls[c].pc = "select"
    /\ LET feed_id == select_feed_id(calls[c].tag_id)
       IN  calls' = [calls EXCEPT ![c].feed_id = feed_id,
                                  ![c].pc = IF feed_id # None THEN "return" ELSE "insert"]
    /\ UNCHANGED <<storeVars, remote, now, pollVars, histVars, fnVars, dbVars,
                   lifeVars, suppressed, feed_rows>>

\* the INSERT returns the new id, or raises out of get_or_create_feed into
\* the command's `except Exception`
InsertFeed(c) ==
    /\ c \in DOMAIN calls
    /\ calls[c].pc = "insert"
    /\ LET r == insert_feed(calls[c].tag_id)
       IN  /\ feed_rows' = r.rows
           /\ calls' = [calls EXCEPT ![c].feed_id = r.feed_id,
                                     ![c].error = r.error,
                                     ![c].pc = IF r.error = "none" THEN "return"
                                               ELSE "except"]
    /\ UNCHANGED <<storeVars, remote, now, pollVars, histVars, fnVars, dbVars,
                   lifeVars, suppressed>>

TrackNext ==
    \/ \E c \in Commands, tag_id \in TagIds : GetOrCreateFeed(c, tag_id)
    \/ \E c \in Commands : SelectFeed(c)
    \/ \E c \in Commands : InsertFeed(c)

TrackSpec == Init /\ [][TrackNext]_vars

\* at most one feeds row per tag id
OneFeedPerTag == \A r1, r2 \in feed_rows : r1.tag_id = r2.tag_id => r1 = r2

\* the calls that are over, by return or by exception
Over(c) == c \in DOMAIN calls /\ calls[c].pc \in {"return", "except"}

\* calls for one tag that returned, returned the same feed id
SameFeedReturned ==
    \A c, d \in DOMAIN calls :
        (calls[c].pc = "return" /\ calls[d].pc = "return"
            /\ calls[c].tag_id = calls[d].tag_id) => calls[c].feed_id = calls[d].feed_id

\* C38: get_or_create_feed is safe under concurrent subscribe commands: at
\* most one feed exists per tag id in every reachable state, and interleaved
\* calls for the same, previously unknown tag id all return the same feed id
\* without an error.
C38_GetOrCreateFeedConcurrent ==
    /\ OneFeedPerTag
    /\ SameFeedReturned
    /\ \A c \in DOMAIN calls : Over(c) => (calls[c].error = "none" /\ calls[c].feed_id # None)

(***************************************************************************)
(* The exclude-remove command running while the bot polls feeds that do    *)
(* not change.  Feed 1 may also list a work whose entry has no id.  The    *)
(* store starts empty of markers and records; every delivery succeeds.     *)
(* suppressed notes, whenever poll_feeds filters new_entries for a         *)
(* subscription, the entries the filter dropped.                           *)
(***************************************************************************)
\* the works feed 1 and feed 2 can list here
ListedOrNoId == [f \in FeedIds |-> IF f = 1 THEN Listed[f] \cup NoIdWorks ELSE Listed[f]]

ListingsOrNoId(f) ==
    {l \in UNION {[1..n -> ListedOrNoId[f]] : n \in 0..MaxWindow} :
        \A j, k \in 1..Len(l) : j # k => l[j] # l[k]}

InitUnexclude ==
    /\ InitStore
    /\ remote \in [FeedIds -> UNION {ListingsOrNoId(f) : f \in FeedIds}]
    /\ \A f \in FeedIds : remote[f] \in ListingsOrNoId(f)
    /\ now = 0
    /\ InitPoll
    /\ InitHist
    /\ InitFn
    /\ InitDb
    /\ InitLife
    /\ InitCmd

\* the new entries that filter_entries_by_tags has just dropped for the
\* subscription whose turn begins
Dropped ==
    {<<subscriptions'[si'].subscription_id, new_entries[j].id>> :
        j \in {k \in 1..Len(new_entries) :
                 \A n \in 1..Len(filtered_entries') : filtered_entries'[n] # new_entries[k]}}

NoteDropped ==
    /\ suppressed' = IF si' # si THEN suppressed \cup Dropped ELSE suppressed
    /\ UNCHANGED <<feed_rows, calls>>

\* DELETE FROM excluded_tags WHERE feed_channel_id = $1 AND tag_name = $2
remove_excluded_tag(feed_channel_id, tag_name) ==
    {t \in excluded_tags : ~(t.feed_channel_id = feed_channel_id /\ t.tag_name = tag_name)}

\* /exclude remove: removed = await db.remove_excluded_tag(subscription_id, tag_name)
RemoveExcludedTag(feed_channel_id, tag_name) ==
    /\ excluded_tags' = remove_excluded_tag(feed_channel_id, tag_name)
    /\ excluded_tags' # excluded_tags
    /\ UNCHANGED <<feeds, feed_channels, notified_entries, remote, now, pollVars,
                   histVars, fnVars, dbVars, lifeVars, cmdVars>>

UnexcludeNext ==
    \/ Running /\ StartCycle
    \/ Running /\ FetchFail
    \/ Running /\ FetchEmpty
    \/ Running /\ FetchEntries
    \/ Running /\ GetSubscriptionsStep /\ NoteDropped
    \/ Running /\ EntriesDoneStep /\ NoteDropped
    \/ Running /\ AlreadyNotified
    \/ Running /\ NotNotified
    \/ Running /\ SendOk
    \/ Running /\ RecordNotification
    \/ Running /\ UpdateFeedMetadata
    \/ Running /\ NextFeed
    \/ \E t \in InitExcludedTags : RemoveExcludedTag(t.feed_channel_id, t.tag_name)

UnexcludeSpec == InitUnexclude /\ [][UnexcludeNext]_vars

\* the entry the running feed's marker names is in the list just fetched
MarkerListed ==
    /\ feed.last_entry_id # None
    /\ \E k \in 1..Len(entries) : entries[k].id = feed.last_entry_id[1]

\* C36: an entry that was filtered out for a subscriber by its exclusion set
\* in the cycle in which it was new is not delivered to that subscriber in
\* any later cycle, even after the exclusion is removed, as long as the
\* feed's marker entry stays within the feed window: no delivery attempted
\* by a poll that found its marker entry listed is for a pair that an
\* earlier filter dropped.
C36_FilteredNeverDeliveredLater ==
    (pc \in {"entry_loop", "send", "record", "update_meta"} /\ MarkerListed) =>
        \A k \in 1..Len(log) :
            OfRunningFeed(log[k]) =>
                <<log[k].subscription_id, log[k].entry_id>> \notin suppressed

====
